---- MODULE Spec2Model ----
(***************************************************************************)
(* A model of src/bank.py: the shared SQLite connection, the run_query     *)
(* helper, the query catalog and the four CRUD branches on `customers`.    *)
(* One action is one button click (one Streamlit rerun of the script).     *)
(*                                                                         *)
(* The connection is the sqlite3 connection of line 15, opened with the    *)
(* default isolation level: the driver opens a transaction before an       *)
(* INSERT/UPDATE/DELETE and only commit() or rollback() ends it.  `disk`   *)
(* is the committed database, `view` is what the connection reads (disk    *)
(* plus the uncommitted writes of its open transaction).                   *)
(*                                                                         *)
(* Dates are day numbers.  Text is ordered by `Collation`.                 *)
(***************************************************************************)
EXTENDS Integers, Sequences, FiniteSets, TLC

VARIABLES disk, view, inTxn, today, last, result, steps

vars == <<disk, view, inTxn, today, last, result, steps>>

(* ------------------------------ bounds -------------------------------- *)

\* Number of button clicks explored.
MaxSteps == 2
\* Number of days the clock may advance.
MaxTicks == 2

(* ------------------------- program constants -------------------------- *)

MinAge == 1
MaxAge == 120
ThirtyDays == 30
SixMonths == 6
TopN == 5
\* '-6 months' on a calendar of 30-day months.
MonthDays == 30

\* The first day of the model: far enough for both look-back windows.
Day0 == SixMonths * MonthDays + ThirtyDays + 1

\* BINARY collation of the text values the model uses.
Collation == <<"", "Agra", "C1", "C2", "Delhi", "Delhi Central", "Pune",
               "Pune Main", "deposit", "withdrawal">>

(* ------------------------------ schema -------------------------------- *)

tables == <<"customers", "accounts", "transactions", "loans", "credit_cards",
            "branches", "support_tickets">>

CustomerColumns == <<"customer_id", "name", "gender", "age", "city",
                     "account_type", "join_date">>

AccountColumns == <<"account_id", "customer_id", "account_balance", "last_updated">>

branches == << [Branch_Name |-> "Pune Main", City |-> "Pune"],
               [Branch_Name |-> "Delhi Central", City |-> "Delhi"] >>

\* The database as the seeding process left it.
SeedDb ==
  [ customers |->
      << [customer_id |-> "C1", name |-> "Ravi", gender |-> "M", age |-> 34,
          city |-> "Pune", account_type |-> "Current", join_date |-> Day0 - 100] >>,
    accounts |->
      << [account_id |-> "A1", customer_id |-> "C1", account_balance |-> 500,
          last_updated |-> Day0 - ThirtyDays],
         [account_id |-> "A2", customer_id |-> "C1", account_balance |-> 70,
          last_updated |-> Day0] >>,
    transactions |->
      << [txn_id |-> "T1", customer_id |-> "C1", txn_type |-> "deposit",
          amount |-> 100, status |-> "success", txn_time |-> Day0 - SixMonths * MonthDays],
         [txn_id |-> "T2", customer_id |-> "C1", txn_type |-> "deposit",
          amount |-> 50, status |-> "success", txn_time |-> Day0 - 1],
         [txn_id |-> "T3", customer_id |-> "C1", txn_type |-> "withdrawal",
          amount |-> 30, status |-> "failed", txn_time |-> Day0 - 2] >>,
    loans |->
      << [Loan_ID |-> "L1", Customer_ID |-> "C1", Loan_Status |-> "Active"] >> ]

(* ------------------------------ inputs -------------------------------- *)

\* What the text inputs "Customer ID ..." can hold ("" is the widget's default).
CustomerIds == {"", "C1", "C2"}

\* What the "New City" text input holds in the model.
NewCities == {"Agra"}

\* The other widgets of the Create form; the ages include both neighbours
\* of the number_input's range.
Forms ==
  { [name |-> "Asha", gender |-> "F", age |-> a, city |-> "Delhi",
     account_type |-> "Savings"] : a \in {MinAge - 1, MinAge, MaxAge, MaxAge + 1} }
  \cup
  { [name |-> "", gender |-> "", age |-> MinAge, city |-> "", account_type |-> ""] }

NoForm == [name |-> "", gender |-> "", age |-> 0, city |-> "", account_type |-> ""]

\* What the store does to a call: nothing, fail the statement, fail the commit.
Faults == {"none", "execute", "commit"}

(* ---------------------------- exceptions ------------------------------ *)

NoExc == [type |-> "", text |-> ""]
Locked == [type |-> "OperationalError", text |-> "database is locked"]
UniqueFailed == [type |-> "IntegrityError",
                 text |-> "UNIQUE constraint failed: customers.customer_id"]
NoSuchTable == [type |-> "OperationalError", text |-> "no such table"]

(* --------------------------- SQL statements --------------------------- *)

\* customers.customer_id is the table's primary key: a second row with a
\* key already in the table is refused.
PrimaryKeyConflict(customers, cid) ==
  \E i \in 1..Len(customers) : customers[i].customer_id = cid

Matching(customers, cid) ==
  Cardinality({i \in 1..Len(customers) : customers[i].customer_id = cid})

\* INSERT OR REPLACE: the row takes the place of the one holding its key.
InsertOrReplace(db, row) ==
  [ exc |-> NoExc,
    db |-> [db EXCEPT !.customers =
              Append(SelectSeq(@, LAMBDA r : r.customer_id # row.customer_id), row)],
    rowcount |-> 1 ]

\* INSERT INTO customers VALUES (?,?,?,?,?,?, DATE('now'))
Insert(db, row) ==
  IF PrimaryKeyConflict(db.customers, row.customer_id)
  THEN [exc |-> UniqueFailed, db |-> db, rowcount |-> 0]
  ELSE [exc |-> NoExc, db |-> [db EXCEPT !.customers = Append(@, row)], rowcount |-> 1]

\* The row the INSERT binds: the six parameters and DATE('now').
NewRowNoDate(cid, form, now) ==
  [customer_id |-> cid, name |-> form.name, gender |-> form.gender, age |-> form.age,
   city |-> form.city, account_type |-> form.account_type, join_date |-> 0]

NewRow(cid, form, now) ==
  [customer_id |-> cid, name |-> form.name, gender |-> form.gender, age |-> form.age,
   city |-> form.city, account_type |-> form.account_type, join_date |-> now]

\* UPDATE customers SET city=? WHERE customer_id=?
UpdateCity(db, new_city, cid) ==
  [ exc |-> NoExc,
    db |-> [db EXCEPT !.customers =
              [i \in 1..Len(@) |->
                 IF @[i].customer_id = cid THEN [@[i] EXCEPT !.city = new_city] ELSE @[i]]],
    rowcount |-> Matching(db.customers, cid) ]

\* A delete that also removes the customer's accounts, transactions and loans.
DeleteCascade(db, cid) ==
  [ exc |-> NoExc,
    db |-> [customers |-> SelectSeq(db.customers, LAMBDA r : r.customer_id # cid),
            accounts |-> SelectSeq(db.accounts, LAMBDA r : r.customer_id # cid),
            transactions |-> SelectSeq(db.transactions, LAMBDA r : r.customer_id # cid),
            loans |-> SelectSeq(db.loans, LAMBDA r : r.Customer_ID # cid)],
    rowcount |-> Matching(db.customers, cid) ]

\* DELETE FROM customers WHERE customer_id=?   (foreign keys are not enforced
\* on the connection, so nothing else is touched)
Delete(db, cid) ==
  [ exc |-> NoExc,
    db |-> [db EXCEPT !.customers = SelectSeq(@, LAMBDA r : r.customer_id # cid)],
    rowcount |-> Matching(db.customers, cid) ]

(* --------------------------- the connection --------------------------- *)

\* conn.execute(stmt) then conn.commit(), as the three write branches call
\* them.  The driver begins a transaction before the statement; a statement
\* that fails is undone but its transaction stays open; a commit that fails
\* leaves the transaction open with the statement's write in it.
ExecuteAndCommit(stmt, fault) ==
  IF fault = "execute"
  THEN [exc |-> Locked, view |-> view, disk |-> disk, inTxn |-> TRUE, rowcount |-> 0]
  ELSE IF stmt.exc # NoExc
  THEN [exc |-> stmt.exc, view |-> view, disk |-> disk, inTxn |-> TRUE, rowcount |-> 0]
  ELSE IF fault = "commit"
  THEN [exc |-> Locked, view |-> stmt.db, disk |-> disk, inTxn |-> TRUE,
        rowcount |-> stmt.rowcount]
  ELSE [exc |-> NoExc, view |-> stmt.db, disk |-> stmt.db, inTxn |-> FALSE,
        rowcount |-> stmt.rowcount]

(* ------------------------ what a call hands back ---------------------- *)

\* st.success(text)
Success(text) == [raised |-> FALSE, shown |-> "success", prefix |-> "", msg |-> text]
\* st.error(e)
Error(exc) == [raised |-> FALSE, shown |-> "error", prefix |-> "", msg |-> exc.text]
\* no handler: the exception leaves the branch
Raised(exc) == [raised |-> TRUE, shown |-> "none", prefix |-> "", msg |-> exc.text]

NoCall ==
  [op |-> "none", cid |-> "", form |-> NoForm, city |-> "", q |-> "", fault |-> "none",
   rowcount |-> 0, existed |-> FALSE, date |-> 0, rerun |-> "no"]

Apply(out) ==
  /\ view' = out.view
  /\ disk' = out.disk
  /\ inTxn' = out.inTxn

(* ---------------------------- read queries ---------------------------- *)

Min(a, b) == IF a < b THEN a ELSE b

\* LIMIT n
Limit(rows, n) == SubSeq(rows, 1, Min(n, Len(rows)))

RECURSIVE Total(_)
\* SUM(amount) over a sequence of transactions
Total(txns) == IF txns = <<>> THEN 0 ELSE Head(txns).amount + Total(Tail(txns))

RECURSIVE InsertDesc(_, _)
\* Places a <<key, total>> row behind the rows whose total is not smaller.
InsertDesc(sorted, row) ==
  IF sorted = <<>> THEN <<row>>
  ELSE IF Head(sorted)[2] >= row[2] THEN <<Head(sorted)>> \o InsertDesc(Tail(sorted), row)
  ELSE <<row>> \o sorted

RECURSIVE OrderByTotalDesc(_)
\* ORDER BY <total> DESC over rows that come in group-key order
OrderByTotalDesc(rows) ==
  IF rows = <<>> THEN <<>>
  ELSE InsertDesc(OrderByTotalDesc(SubSeq(rows, 1, Len(rows) - 1)), rows[Len(rows)])

\* The group keys of GROUP BY, in collation order.
GroupKeys(present) == SelectSeq(Collation, LAMBDA k : k \in present)

\* SELECT * FROM customers
SelectCustomers(db, now) ==
  [ exc |-> NoExc, columns |-> CustomerColumns,
    rows |-> [i \in 1..Len(db.customers) |->
                LET r == db.customers[i] IN
                <<r.customer_id, r.name, r.gender, r.age, r.city, r.account_type,
                  r.join_date>>] ]

\* SELECT txn_type, SUM(amount) ... GROUP BY txn_type ORDER BY <sum> DESC
VolumeByType(txns) ==
  LET keys == GroupKeys({txns[i].txn_type : i \in 1..Len(txns)})
      grouped == [i \in 1..Len(keys) |->
                    <<keys[i], Total(SelectSeq(txns, LAMBDA t : t.txn_type = keys[i]))>>]
  IN [exc |-> NoExc, columns |-> <<"txn_type", "total_transaction_volume">>,
      rows |-> OrderByTotalDesc(grouped)]

\* '5.' with the look-back window of '7.' in its WHERE clause.
Query5Recent(db, now) ==
  VolumeByType(SelectSeq(db.transactions,
                         LAMBDA t : t.txn_time >= now - SixMonths * MonthDays))

\* "5. Total transaction volume by transaction type"
Query5(db, now) == VolumeByType(db.transactions)

RECURSIVE JoinTotal(_, _)
\* SUM(t.amount) over a set of joined (transaction, customer, branch) rows
JoinTotal(J, txns) ==
  IF J = {} THEN 0
  ELSE LET x == CHOOSE x \in J : TRUE IN txns[x[1]].amount + JoinTotal(J \ {x}, txns)

\* "7. Top 5 branches by transaction volume (last 6 months)"
Query7(db, now) ==
  LET T == db.transactions
      C == db.customers
      B == branches
      J == {x \in (1..Len(T)) \X (1..Len(C)) \X (1..Len(B)) :
              /\ T[x[1]].customer_id = C[x[2]].customer_id
              /\ C[x[2]].city = B[x[3]].City
              /\ T[x[1]].txn_time >= now - SixMonths * MonthDays}
      keys == GroupKeys({B[x[3]].Branch_Name : x \in J})
      grouped == [i \in 1..Len(keys) |->
                    <<keys[i], JoinTotal({x \in J : B[x[3]].Branch_Name = keys[i]}, T)>>]
  IN [exc |-> NoExc, columns |-> <<"Branch_Name", "total_transaction_volume">>,
      rows |-> Limit(OrderByTotalDesc(grouped), TopN)]

\* "16. How many customers exist in each city?"
Query16(db, now) ==
  LET C == db.customers
      keys == GroupKeys({C[i].city : i \in 1..Len(C)})
  IN [exc |-> NoExc, columns |-> <<"city", "total_customers">>,
      rows |-> [i \in 1..Len(keys) |->
                  <<keys[i], Cardinality({j \in 1..Len(C) : C[j].city = keys[i]})>>]]

\* "21.Support agents who resolved most critical tickets ...": FROM tickets
Query21(db, now) ==
  IF \E i \in 1..Len(tables) : tables[i] = "tickets"
  THEN [exc |-> NoExc, columns |-> <<"support_agent", "resolved_tickets">>, rows |-> <<>>]
  ELSE [exc |-> NoSuchTable, columns |-> <<>>, rows |-> <<>>]

\* "22. Retrieve all customers who have not updated their account balance
\* in the last 30 days."
Query22(db, now) ==
  LET stale == SelectSeq(db.accounts, LAMBDA a : a.last_updated < now - ThirtyDays)
  IN [exc |-> NoExc, columns |-> AccountColumns,
      rows |-> [i \in 1..Len(stale) |->
                  <<stale[i].account_id, stale[i].customer_id, stale[i].account_balance,
                    stale[i].last_updated>>]]

\* The keys of the catalog that the model carries.
queries == {"5", "7", "16", "21", "22"}

\* The entries whose statement reads the clock ('now').
ClockQueries == {"7", "22"}

\* What the store answers to a statement of the catalog.
Evaluate(q, db, now) ==
  CASE q = "5" -> Query5(db, now)
    [] q = "7" -> Query7(db, now)
    [] q = "16" -> Query16(db, now)
    [] q = "21" -> Query21(db, now)
    [] q = "22" -> Query22(db, now)
    [] OTHER -> SelectCustomers(db, now)

\* A DataFrame with its columns and rows, and what was shown beside it.
Frame(exc, columns, rows) ==
  [raised |-> FALSE, shown |-> IF exc = NoExc THEN "none" ELSE "error",
   prefix |-> IF exc = NoExc THEN "" ELSE "SQL Error: ", msg |-> exc.text,
   columns |-> columns, rows |-> rows]

\* run_query without its try/except.
run_query_uncaught(answer, fault) ==
  LET exc == IF fault = "execute" THEN Locked ELSE answer.exc IN
  IF exc = NoExc THEN Frame(NoExc, answer.columns, answer.rows)
  ELSE [raised |-> TRUE, shown |-> "none", prefix |-> "", msg |-> exc.text,
        columns |-> <<>>, rows |-> <<>>]

\* run_query: the answer as a DataFrame, or st.error and an empty DataFrame.
run_query(answer, fault) ==
  LET exc == IF fault = "execute" THEN Locked ELSE answer.exc IN
  IF exc = NoExc THEN Frame(NoExc, answer.columns, answer.rows)
  ELSE Frame(exc, <<>>, <<>>)

\* A read through pandas.read_sql_query.  A read opens no transaction.  When
\* the statement fails, pandas may roll the connection back before it raises
\* (its SQLite wrapper does in the versions that have one): both are allowed.
Query(op, q, fault, rollback) ==
  /\ steps < MaxSteps
  /\ LET frame == run_query(Evaluate(q, view, today), fault) IN
       /\ result' = frame
       /\ IF frame.shown = "error" /\ rollback
          THEN view' = disk /\ inTxn' = FALSE
          ELSE UNCHANGED <<view, inTxn>>
       /\ last' = [NoCall EXCEPT !.op = op, !.q = q, !.fault = fault, !.date = today,
                     !.rowcount = Len(frame.rows),
                     !.rerun = IF /\ last.op = op /\ last.q = q
                                  /\ last.fault = "none" /\ fault = "none"
                               THEN (IF last.date = today THEN "same day" ELSE "later day")
                               ELSE "no"]
  /\ steps' = steps + 1
  /\ UNCHANGED <<disk, today>>

\* "Run Query" on the selected catalog entry
RunQuery(q, fault, rollback) == Query("run", q, fault, rollback)

\* CRUD "Read": All Customers
Read(fault, rollback) == Query("read", "customers", fault, rollback)

(* ----------------------------- CRUD: writes --------------------------- *)

\* "Add Customer": the number_input only yields an age in [MinAge, MaxAge];
\* the text inputs are passed on as typed.
Create(cid, form, fault) ==
  /\ steps < MaxSteps
  /\ form.age \in MinAge..MaxAge
  /\ LET out == ExecuteAndCommit(Insert(view, NewRow(cid, form, today)), fault) IN
       /\ Apply(out)
       /\ result' = IF out.exc = NoExc THEN Success("Customer added successfully!")
                    ELSE Error(out.exc)
       /\ last' = [NoCall EXCEPT !.op = "create", !.cid = cid, !.form = form,
                     !.fault = fault, !.rowcount = out.rowcount,
                     !.existed = PrimaryKeyConflict(view.customers, cid),
                     !.date = today]
  /\ steps' = steps + 1
  /\ UNCHANGED today

\* "Update"
Update(cid, new_city, fault) ==
  /\ steps < MaxSteps
  /\ LET out == ExecuteAndCommit(UpdateCity(view, new_city, cid), fault) IN
       /\ Apply(out)
       /\ result' = IF out.exc = NoExc THEN Success("Customer updated!")
                    ELSE Raised(out.exc)
       /\ last' = [NoCall EXCEPT !.op = "update", !.cid = cid, !.city = new_city,
                     !.fault = fault, !.rowcount = out.rowcount,
                     !.existed = PrimaryKeyConflict(view.customers, cid),
                     !.date = today]
  /\ steps' = steps + 1
  /\ UNCHANGED today

\* "Delete"
DeleteCustomer(cid, fault) ==
  /\ steps < MaxSteps
  /\ LET out == ExecuteAndCommit(Delete(view, cid), fault) IN
       /\ Apply(out)
       /\ result' = IF out.exc = NoExc THEN Success("Customer deleted!")
                    ELSE Raised(out.exc)
       /\ last' = [NoCall EXCEPT !.op = "delete", !.cid = cid,
                     !.fault = fault, !.rowcount = out.rowcount,
                     !.existed = PrimaryKeyConflict(view.customers, cid),
                     !.date = today]
  /\ steps' = steps + 1
  /\ UNCHANGED today

\* The date moves on between two clicks.
Tick ==
  /\ today < Day0 + MaxTicks
  /\ today' = today + 1
  /\ UNCHANGED <<disk, view, inTxn, last, result, steps>>

Init ==
  /\ disk = SeedDb
  /\ view = SeedDb
  /\ inTxn = FALSE
  /\ today = Day0
  /\ last = NoCall
  /\ result = [raised |-> FALSE, shown |-> "none", prefix |-> "", msg |-> ""]
  /\ steps = 0

Next ==
  \/ \E cid \in CustomerIds, form \in Forms, fault \in Faults : Create(cid, form, fault)
  \/ \E cid \in CustomerIds, c \in NewCities, fault \in Faults : Update(cid, c, fault)
  \/ \E cid \in CustomerIds, fault \in Faults : DeleteCustomer(cid, fault)
  \/ \E q \in queries, fault \in {"none", "execute"}, rb \in BOOLEAN :
        /\ (fault = "none" /\ Evaluate(q, view, today).exc = NoExc) => ~rb
        /\ RunQuery(q, fault, rb)
  \/ \E fault \in {"none", "execute"}, rb \in BOOLEAN :
        /\ fault = "none" => ~rb
        /\ Read(fault, rb)
  \/ Tick

Spec == Init /\ [][Next]_vars

(* ------------------------------ the claims ---------------------------- *)

\* A step that is a call (a button click), not the clock.
CallStep == steps' = steps + 1

IsWrite(op) == op \in {"create", "update", "delete"}

\* C1: no call lets a store failure escape; every call hands back a typed
\* error or a result.
C1_NoFailureEscapes == ~result.raised

\* C2: an update of an existing id sets the city of that row and nothing
\* else, and its outcome differs from the outcome of an update that matched
\* no row (rowsAffected 1 against rowsAffected 0): two successive updates
\* that changed different numbers of rows hand back different outcomes.
C2_UpdateReportsRows ==
  [][ (CallStep /\ last'.op = "update" /\ ~result'.raised) =>
        /\ Len(view'.customers) = Len(view.customers)
        /\ \A i \in 1..Len(view.customers) :
             view'.customers[i] =
               IF view.customers[i].customer_id = last'.cid
               THEN [view.customers[i] EXCEPT !.city = last'.city]
               ELSE view.customers[i]
        /\ (last.op = "update" /\ ~result.raised /\ last.rowcount # last'.rowcount)
             => result' # result ]_vars

\* C3: of two successive deletes of an id that is present, the first removes
\* the row and reports one row, the second reports none: the row is gone
\* after the first, and the two outcomes differ.
C3_DeleteTwice ==
  [][ (/\ CallStep
       /\ last.op = "delete" /\ last.existed /\ ~result.raised
       /\ last'.op = "delete" /\ last'.cid = last.cid /\ ~result'.raised) =>
        /\ ~PrimaryKeyConflict(view.customers, last.cid)
        /\ last.rowcount = 1
        /\ last'.rowcount = 0
        /\ result' # result ]_vars

C5_CreateThenRead ==
  (last.op = "create" /\ result.shown = "success" /\ ~last.existed) =>
    LET frame == run_query(SelectCustomers(view, today), "none")
        hits == SelectSeq(frame.rows, LAMBDA r : r[1] = last.cid)
    IN /\ frame.shown = "none"
       /\ Len(hits) = 1
       /\ hits[1] = <<last.cid, last.form.name, last.form.gender, last.form.age,
                      last.form.city, last.form.account_type, last.date>>

C5_Witness ==
  /\ last.op = "create"
  /\ result.shown = "success"
  /\ last.date < today
  /\ Len(view.customers) >= 2

ValidInput(cid, form) ==
  /\ cid # ""
  /\ form.name # "" /\ form.gender # "" /\ form.city # "" /\ form.account_type # ""
  /\ form.age \in MinAge..MaxAge

\* C6: a create whose id, name, gender, city or account type is empty, or
\* whose age is outside [1,120], is rejected and inserts no row.
C6_CreateValidates ==
  [][ (CallStep /\ last'.op = "create" /\ ~ValidInput(last'.cid, last'.form)) =>
        /\ result'.shown = "error"
        /\ view'.customers = view.customers ]_vars

\* C7: run never raises; a failed execution shows the underlying message and
\* returns a table without columns and rows; a statement that succeeds
\* returns its columns and rows, none if none match, and shows no error.
C7_RunNeverRaises ==
  last.op \in {"run", "read"} =>
    LET answer == Evaluate(last.q, view, last.date)
        exc == IF last.fault = "execute" THEN Locked ELSE answer.exc
    IN /\ ~result.raised
       /\ exc # NoExc =>
            /\ result.shown = "error"
            /\ result.msg = exc.text
            /\ result.columns = <<>>
            /\ result.rows = <<>>
       /\ exc = NoExc =>
            /\ result.shown = "none"
            /\ result.columns = answer.columns
            /\ Len(result.columns) > 0
            /\ result.rows = answer.rows

C7_Witness ==
  /\ last.op = "run"
  /\ last.fault = "execute"
  /\ result.shown = "error"
  /\ result.rows = <<>>

SameTable(a, b) == a.columns = b.columns /\ a.rows = b.rows

C10_NoOpenTransaction == IsWrite(last.op) => ~inTxn

====
